---- MODULE Spec2Model ----
(***************************************************************************)
(* Model of the real-time trigger engine of miditosolenoid:                *)
(* generative::GenerativeController (src/generative/generative_controller  *)
(* .cpp/.h) driven through its public API (Init, SetBpm, Randomize, Tick). *)
(*                                                                         *)
(* 32-bit unsigned values that can exceed 2^31-1 (rng_state_,              *)
(* velocity_bits) are pairs <<hi16, lo16>> so that the arithmetic mod 2^32 *)
(* is exact.  The grids::PatternGenerator sources are vendored and not     *)
(* part of the examined files; its step counter and drum map are modelled  *)
(* from the specification (sections 2, 3 and 6).                           *)
(***************************************************************************)
EXTENDS Integers, Naturals, Sequences, FiniteSets, TLC

\* ------------------------------------------------------------------------
\* Program constants
\* ------------------------------------------------------------------------
kNumChannels == 8
kPatternSteps == 32
kStepsPerPattern == 32
kPulsesPerStep == 3
kTickUs == 1000
kUsPerPulseNumerator == 25000000
kHighDuration == 100
kLowDuration == 1
kLcgMulHi == 25
kLcgMulLo == 26125
kLcgAddHi == 15470
kLcgAddLo == 62303
kWord == 2 ^ 16
DEBOUNCE_MS == 50
LONG_PRESS_MS == 1000
GPIO_COUNT == 8
DEFAULT_BPM_TENTHS == 1200
nil_time == 0
max_packets == 32
BootMs == 2200

\* ------------------------------------------------------------------------
\* Bounds of the model
\* ------------------------------------------------------------------------
MaxTicks == 8
MaxOps == 2
MaxLongTicks == 100
MaxBtnCalls == 8
MaxPasses == 4
MaxToggles == 2
MaxArrivals == 1

Channels == 0 .. (kNumChannels - 1)

\* Inputs the API calls are tried with.
Seeds == { <<0, 1>>, <<4660, 22136>> }
Tempos == { 0, 10000, 25000, 50000 }
LongSeeds == { <<0, 1>> }
LongTempos == { 25000, 50000 }
Oracles == { "max", "zero", "mix" }
\* to_ms_since_boot at the first pass of the main loop (after the start-up
\* delays), and a pass 600 ms before the 32-bit millisecond counter wraps.
BootTimes == { <<0, 2200>>, <<65535, 64936>> }
\* Runs of 1 ms passes in which process_button finds the reading unchanged
\* and has nothing to do, up to the last pass of the run, which is free.
QuietJumps == { 49, 50, 150, 1000 }
\* Main loop: time_us_32() values used as seeds (at start-up, on a long
\* press), durations of one pass in ms (sleep_ms(1) plus the pass's own
\* work), USB-MIDI event packets, and the passes already made when the
\* model starts, as runs of <<key reading, pass time, number of passes>>:
\* none; 60 undisturbed passes (the first step is about to be evaluated);
\* 122 undisturbed passes (the second step is about to be evaluated while
\* the long pulses of the first are on);
\* a long press into MIDI mode followed by the key's release.
\* A transfer puts one packet or a run of packets into the receive queue;
\* an entry shorter than four bytes is one the transport cannot read as a
\* packet.
BootSeeds == { <<0, 1>> }
MainSeeds == { <<0, 1>>, <<4660, 22136>> }
PassTimes == { 1, 50, 950, 1000 }
Packets == { <<9, 144, 60, 127>>, <<9, 147, 9, 64>>, <<9, 144, 60, 1>>,
             <<9, 144, 60, 0>>, <<8, 128, 60, 64>>, <<11, 176, 7, 100>>,
             <<9, 144, 60, 255>> }
Transfers == { <<p>> : p \in Packets } \cup
             { << <<9, 144, 60, 127>>, <<8, 128, 60, 64>> >>,
               << <<9, 144, 60, 127>>, <<9, 144, 60, 1>> >>,
               << <<11, 176, 7, 100>>, <<9, 144>>, <<9, 147, 9, 64>> >>,
               [i \in 1 .. (max_packets + 1) |-> <<11, 176, 7, 100>>] }
Preludes == { << >>,
              << <<FALSE, 1, 60>> >>,
              << <<FALSE, 1, 61>>, <<FALSE, 1, 61>> >>,
              << <<TRUE, 50, 1>>, <<TRUE, 1000, 1>>, <<TRUE, 1, 1>>,
                 <<FALSE, 50, 1>>, <<FALSE, 1, 1>> >> }

VARIABLES
    gc,          \* the GenerativeController object
    grids,       \* static state of grids::PatternGenerator and avrlib::Random
    oracle,      \* which drum map the (opaque) density table is
    event,       \* FireEvent returned by the most recent Tick
    last_op,     \* the API call that produced this state
    evaluated,   \* the most recent Tick evaluated the channel bank
    pulsed,      \* the most recent Tick consumed a pulse
    ticks,       \* number of Tick calls made (bounded)
    ops,         \* number of Init/SetBpm/Randomize calls made (bounded)
    inited,      \* Init has been called
    const_tempo, \* us_per_pulse has not changed since the last Init
    no_rand,     \* Randomize has not been called since the last Init
    n_ticks,     \* Tick calls since the last Init
    n_pulses,    \* pulses consumed since the last Init
    r_pulses,    \* pulses consumed since the last reset (ctor/Init/Randomize)
    r_evals,     \* channel-bank evaluations since the last reset
    fires,       \* per channel: firings since the last reset
    last_tempo,  \* most recent non-zero tempo given to Init/SetBpm (0: none)
    last_arg,    \* tempo argument of the most recent Init/SetBpm call
    ref_gc,      \* a second controller, constructed afresh at every Init
    ref_grids,   \* ... with pattern generator statics of its own
    ref_event,   \* FireEvent returned by the second controller's last Tick
    same_tempo,  \* both controllers left the last Init with one us_per_pulse
    btn,         \* the btn_* statics of main.cpp
    now_ms,      \* to_ms_since_boot at the most recent pass (uint32)
    btn_action,  \* value returned by the most recent process_button call
    raw_run,     \* ms the raw reading has been unchanged (capped at 50)
    held_ms,     \* ms since the debounced press edge (capped at 1000)
    cycle_short, \* ShortPress actions since the last debounced press edge
    cycle_long,  \* LongPress actions since the last debounced press edge
    pressed50,   \* the raw reading has at some pass been pressed for 50 ms
    presses,     \* number of debounced press edges so far
    btn_calls,   \* number of process_button calls made (bounded)
    ref_btn,     \* the btn_* statics of a second run, given the same
                 \* readings at the same intervals far from the clock's wrap
    ref_now_ms,  \* to_ms_since_boot at that run's most recent pass
    ref_action,  \* value returned by that run's most recent call
    board,       \* main.cpp: mode, solenoid and LED outputs, deadlines,
                 \* USB-MIDI receive queue, absolute time in ms
    pc,          \* position in the main loop's pass
    midi_packets,\* packets still to read in this pass (MIDI mode)
    last_packet, \* packet handled by the most recent step (<<>>: none)
    reads,       \* tud_midi_packet_read calls made in this pass
    switched_off,\* outputs switched off by the most recent deadline check
    shortened,   \* outputs whose pending deadline the most recent firing
                 \* replaced by an earlier one
    cleared,     \* outputs found on by the most recent all_solenoids_off
    passes,      \* passes completed (bounded)
    toggles,     \* changes of the button reading so far (bounded)
    arrivals     \* USB-MIDI transfers received so far (bounded)

ctl_vars == << gc, grids, oracle, event, last_op, evaluated, pulsed, ticks,
               ops, inited, const_tempo, no_rand, n_ticks, n_pulses,
               r_pulses, r_evals, fires, last_tempo, last_arg, ref_gc,
               ref_grids, ref_event, same_tempo >>

btn_vars == << btn, now_ms, btn_action, raw_run, held_ms, cycle_short,
               cycle_long, pressed50, presses, btn_calls, ref_btn,
               ref_now_ms, ref_action >>

main_vars == << board, pc, midi_packets, last_packet, reads, switched_off,
                shortened, cleared, passes, toggles, arrivals >>

vars == << ctl_vars, btn_vars, main_vars >>

\* ------------------------------------------------------------------------
\* 32-bit helpers on <<hi16, lo16>> pairs
\* ------------------------------------------------------------------------
Pow2(n) == 2 ^ n

\* value % m for a 32-bit pair, m < 2^15
U32Mod(v, m) == (((v[1] % m) * (kWord % m)) + (v[2] % m)) % m

\* (v >> k) & 1 for k in 0..31
U32Bit(v, k) == IF k < 16 THEN (v[2] \div Pow2(k)) % 2
                ELSE (v[1] \div Pow2(k - 16)) % 2

\* bit i of an 8-bit mask
MaskBit(mask, i) == (mask \div Pow2(i)) % 2 = 1

\* rng_state_ * 1664525u + 1013904223u  (mod 2^32)
LcgNext(s) ==
    LET lowfull == s[2] * kLcgMulLo + kLcgAddLo
        carry   == lowfull \div kWord
        hi      == (((s[1] * kLcgMulLo) % kWord) + ((s[2] * kLcgMulHi) % kWord)
                    + carry + kLcgAddHi) % kWord
    IN  << hi, lowfull % kWord >>

\* ------------------------------------------------------------------------
\* grids::PatternGenerator (vendored; modelled from the specification)
\* ------------------------------------------------------------------------

\* Density oracle: a pure function (step, part, x, y) -> 0..255.  The table
\* is opaque, so the model is checked against several pure drum maps.
DrumMap(o, step, part, x, y) ==
    CASE o = "max"  -> 255
      [] o = "zero" -> 0
      [] OTHER      -> 56 + ((x + y + (7 * step) + (13 * part) + 70) % 100)

GetDrumMapLevel(step, part, x, y) == DrumMap(oracle, step, part, x, y)

\* PatternGenerator::Init(): sequence position back to the start.
PatternGeneratorInit(g) == [g EXCEPT !.step = 0, !.pulse = 0]

\* PatternGenerator::TickClock(n): 3 pulses per step, 32 steps per pattern.
TickClock(g, n) ==
    LET p == g.pulse + n
        s == g.step + (p \div kPulsesPerStep)
    IN  [g EXCEPT !.pulse = p % kPulsesPerStep,
                  !.step = IF s >= kStepsPerPattern
                           THEN s - kStepsPerPattern ELSE s]

\* avrlib::Random::Seed
RandomSeed(g, seed) == [g EXCEPT !.rng_state = seed]

\* ------------------------------------------------------------------------
\* GenerativeController
\* ------------------------------------------------------------------------
ZeroChannel == [drum_part |-> 0, x |-> 0, y |-> 0, density |-> 0,
                velocity_bits |-> <<0, 0>>, velocity_step |-> 0]

EmptyEvent == [gpio_mask |-> 0, duration_ms |-> [i \in Channels |-> 0]]

\* GenerativeController::GenerativeController()
Constructed ==
    [channels |-> [i \in Channels |-> ZeroChannel],
     bpm_tenths |-> 1200,
     us_per_pulse |-> 0,
     us_accumulator |-> 0,
     current_step |-> 0,
     pulse_in_step |-> 0,
     step_evaluated |-> FALSE,
     rng_state |-> <<4660, 22136>>]

\* static uint32_t Random::rng_state_ = 0x12345678, PatternGenerator at rest
GridsStatic == [step |-> 0, pulse |-> 0, rng_state |-> <<4660, 22136>>]

\* Variant: a draw advances the generator twice.
SimpleRandTwice(s) == LcgNext(LcgNext(s))

\* SimpleRand(): the state after one draw (the draw returns the new state).
SimpleRand(s) == LcgNext(s)

\* Variant: a zero tempo corrupts us_per_pulse_ instead of leaving it alone.
UpdateUsPerPulseZeroing(bpm, old) ==
    IF bpm > 0 THEN kUsPerPulseNumerator \div bpm ELSE 0

\* UpdateUsPerPulse(): value of us_per_pulse_ for a stored tempo.
UpdateUsPerPulse(bpm, old) ==
    IF bpm > 0 THEN kUsPerPulseNumerator \div bpm ELSE old

\* Variant: a tempo change also restarts the clock, as Init does.
SetBpmRestarting(c, bpm) ==
    [c EXCEPT !.bpm_tenths = bpm,
              !.us_per_pulse = UpdateUsPerPulse(bpm, c.us_per_pulse),
              !.us_accumulator = 0,
              !.pulse_in_step = 0]

\* SetBpm(bpm_tenths)
SetBpm(c, bpm) ==
    [c EXCEPT !.bpm_tenths = bpm,
              !.us_per_pulse = UpdateUsPerPulse(bpm, c.us_per_pulse)]

\* Variant: the density is drawn over the full byte range.
RollChannelFullRange(s) ==
    LET r1 == SimpleRand(s)
        r2 == SimpleRand(r1)
        r3 == SimpleRand(r2)
        r4 == SimpleRand(r3)
        r5 == SimpleRand(r4)
    IN  [ch |-> [drum_part |-> U32Mod(r1, 3),
                 x |-> r2[2] % 256,
                 y |-> r3[2] % 256,
                 density |-> r4[2] % 256,
                 velocity_bits |-> r5,
                 velocity_step |-> 0],
         rng |-> r5]

\* The five draws Randomize makes for one channel, starting from state s.
RollChannel(s) ==
    LET r1 == SimpleRand(s)
        r2 == SimpleRand(r1)
        r3 == SimpleRand(r2)
        r4 == SimpleRand(r3)
        r5 == SimpleRand(r4)
    IN  [ch |-> [drum_part |-> U32Mod(r1, 3),
                 x |-> r2[2] % 256,
                 y |-> r3[2] % 256,
                 density |-> 100 + U32Mod(r4, 100),
                 velocity_bits |-> r5,
                 velocity_step |-> 0],
         rng |-> r5]

\* The channel loop of Randomize from channel i on.
RECURSIVE RandomizeLoop(_, _, _)
RandomizeLoop(i, chans, s) ==
    IF i >= kNumChannels THEN [channels |-> chans, rng |-> s]
    ELSE LET r == RollChannel(s)
         IN  RandomizeLoop(i + 1, [chans EXCEPT ![i] = r.ch], r.rng)

\* Variant: Randomize also restarts the pulse clock's accumulator.
RandomizeClearingSurplus(c, g) ==
    LET r    == RandomizeLoop(0, c.channels, c.rng_state)
        seed == SimpleRand(r.rng)
    IN  [gc |-> [c EXCEPT !.channels = r.channels,
                          !.current_step = 0,
                          !.pulse_in_step = 0,
                          !.step_evaluated = FALSE,
                          !.us_accumulator = 0,
                          !.rng_state = seed],
         grids |-> RandomSeed(PatternGeneratorInit(g), seed)]

\* Variant: the pattern generator keeps its position over a Randomize.
RandomizeKeepingPosition(c, g) ==
    LET r    == RandomizeLoop(0, c.channels, c.rng_state)
        seed == SimpleRand(r.rng)
    IN  [gc |-> [c EXCEPT !.channels = r.channels,
                          !.current_step = 0,
                          !.pulse_in_step = 0,
                          !.step_evaluated = FALSE,
                          !.rng_state = seed],
         grids |-> RandomSeed(g, seed)]

\* Randomize(): new controller and new grids statics.
\* The pattern generator settings are rewritten with the same constants on
\* every call (x = y = 128, randomness 0, densities 128) and are not state.
Randomize(c, g) ==
    LET r    == RandomizeLoop(0, c.channels, c.rng_state)
        seed == SimpleRand(r.rng)
    IN  [gc |-> [c EXCEPT !.channels = r.channels,
                          !.current_step = 0,
                          !.pulse_in_step = 0,
                          !.step_evaluated = FALSE,
                          !.rng_state = seed],
         grids |-> RandomSeed(PatternGeneratorInit(g), seed)]

\* Variant: Init forgets to clear the microsecond accumulator.
ControllerInitKeepingSurplus(c, g, seed, bpm) ==
    LET s1 == SimpleRand(seed)
        g1 == RandomSeed(PatternGeneratorInit(g), s1)
        c1 == [c EXCEPT !.rng_state = s1,
                        !.bpm_tenths = bpm,
                        !.current_step = 0,
                        !.pulse_in_step = 0,
                        !.step_evaluated = FALSE,
                        !.us_per_pulse = UpdateUsPerPulse(bpm, c.us_per_pulse)]
    IN  Randomize(c1, g1)

\* Init(seed, bpm_tenths)
ControllerInit(c, g, seed, bpm) ==
    LET s1 == SimpleRand(seed)
        g1 == RandomSeed(PatternGeneratorInit(g), s1)
        c1 == [c EXCEPT !.rng_state = s1,
                        !.bpm_tenths = bpm,
                        !.us_accumulator = 0,
                        !.current_step = 0,
                        !.pulse_in_step = 0,
                        !.step_evaluated = FALSE,
                        !.us_per_pulse = UpdateUsPerPulse(bpm, c.us_per_pulse)]
    IN  Randomize(c1, g1)

\* Tick: "if (us_accumulator_ < us_per_pulse_) return event;"
NoPulseYet(acc, upp) == acc < upp

\* Variant: the surplus is dropped when a pulse elapses.
ConsumePulseDroppingSurplus(acc, upp) == 0

\* Tick: "us_accumulator_ -= us_per_pulse_;"
ConsumePulse(acc, upp) == acc - upp

\* Variant: off-by-one in the pulse wrap.
StepBoundaryLate(p) == p > kPulsesPerStep

\* Tick: "if (pulse_in_step_ >= grids::kPulsesPerStep)"
StepBoundary(p) == p >= kPulsesPerStep

\* Variant: the evaluation is guarded by step_evaluated_ alone.
ShouldEvaluateUnaligned(se, p) == ~se

\* Tick: "if (!step_evaluated_ && pulse_in_step_ == 0)"
ShouldEvaluate(se, p) == (~se) /\ p = 0

\* Variant: a level equal to the trigger bar fires.
ChannelFiresAtBar(level, density) == level >= 255 - density

\* Tick: "uint8_t threshold = 255 - ch.density; if (level > threshold)"
ChannelFires(level, density) == level > 255 - density

\* Variant: the cursor is advanced before the velocity bit is read.
DurationAfterAdvance(bits, vstep) ==
    IF U32Bit(bits, (vstep + 1) % kPatternSteps) = 1
    THEN kHighDuration ELSE kLowDuration

\* Tick: "high_vel = (velocity_bits >> velocity_step) & 1; high_vel ? 100 : 1"
Duration(bits, vstep) ==
    IF U32Bit(bits, vstep) = 1 THEN kHighDuration ELSE kLowDuration

\* Tick: "(ch.velocity_step + 1) % kPatternSteps"
NextVelocityStep(v) == (v + 1) % kPatternSteps

\* Variant: the velocity cursor follows the step, not the trigger.
EvaluateChannelStepIndexed(ch, level) ==
    LET adv == [ch EXCEPT !.velocity_step = NextVelocityStep(ch.velocity_step)]
    IN  IF ChannelFires(level, ch.density)
        THEN [ch |-> adv, fired |-> TRUE,
              duration |-> Duration(ch.velocity_bits, ch.velocity_step)]
        ELSE [ch |-> adv, fired |-> FALSE, duration |-> 0]

\* Variant: a firing shifts the velocity pattern instead of moving the
\* cursor along it.
EvaluateChannelConsumingBits(ch, level) ==
    IF ChannelFires(level, ch.density)
    THEN [ch |-> [ch EXCEPT !.velocity_bits =
                     << ch.velocity_bits[1] \div 2,
                        (ch.velocity_bits[2] \div 2)
                        + ((ch.velocity_bits[1] % 2) * (kWord \div 2)) >>],
          fired |-> TRUE,
          duration |-> IF ch.velocity_bits[2] % 2 = 1
                       THEN kHighDuration ELSE kLowDuration]
    ELSE [ch |-> ch, fired |-> FALSE, duration |-> 0]

\* Tick: the body of the channel loop for one channel, given its level.
EvaluateChannel(ch, level) ==
    IF ChannelFires(level, ch.density)
    THEN [ch |-> [ch EXCEPT !.velocity_step = NextVelocityStep(ch.velocity_step)],
          fired |-> TRUE,
          duration |-> Duration(ch.velocity_bits, ch.velocity_step)]
    ELSE [ch |-> ch, fired |-> FALSE, duration |-> 0]

\* Tick: the channel loop from channel i on.
RECURSIVE EvaluateLoop(_, _, _, _)
EvaluateLoop(i, chans, ev, step) ==
    IF i >= kNumChannels THEN [channels |-> chans, event |-> ev]
    ELSE LET ch == chans[i]
             r  == EvaluateChannel(ch,
                       GetDrumMapLevel(step, ch.drum_part, ch.x, ch.y))
             e  == IF r.fired
                   THEN [gpio_mask |-> ev.gpio_mask + Pow2(i),
                         duration_ms |-> [ev.duration_ms EXCEPT ![i] = r.duration]]
                   ELSE ev
         IN  EvaluateLoop(i + 1, [chans EXCEPT ![i] = r.ch], e, step)

\* Tick(): new controller, new grids statics, the returned FireEvent, and
\* whether a pulse was consumed / the channel bank was evaluated.
\* The trailing IncrementPulseCounter() touches only the pattern generator's
\* output pulse-length counter, which the controller never reads.  The
\* accumulator is a uint32_t; within the bounds it stays far below 2^32.
Tick(c, g) ==
    LET acc1 == c.us_accumulator + kTickUs
    IN  IF NoPulseYet(acc1, c.us_per_pulse)
        THEN [gc |-> [c EXCEPT !.us_accumulator = acc1], grids |-> g,
              event |-> EmptyEvent, pulsed |-> FALSE, evaluated |-> FALSE]
        ELSE
          LET acc2 == ConsumePulse(acc1, c.us_per_pulse)
              g1   == TickClock(g, 1)
              g2   == IF g1.step >= kStepsPerPattern
                      THEN [g1 EXCEPT !.step = 0] ELSE g1
              p1   == c.pulse_in_step + 1
              wrap == StepBoundary(p1)
              p2   == IF wrap THEN 0 ELSE p1
              cs   == IF wrap THEN g2.step ELSE c.current_step
              se   == IF wrap THEN FALSE ELSE c.step_evaluated
              eval == ShouldEvaluate(se, p2)
              r    == EvaluateLoop(0, c.channels, EmptyEvent, cs)
          IN  [gc |-> [c EXCEPT !.us_accumulator = acc2,
                                !.pulse_in_step = p2,
                                !.current_step = cs,
                                !.step_evaluated = IF eval THEN TRUE ELSE se,
                                !.channels = IF eval THEN r.channels ELSE @],
               grids |-> g2,
               event |-> IF eval THEN r.event ELSE EmptyEvent,
               pulsed |-> TRUE,
               evaluated |-> eval]

\* ------------------------------------------------------------------------
\* The user key (main.cpp): debounce and short/long press detection
\* ------------------------------------------------------------------------

\* uint32 arithmetic on <<high 16 bits, low 16 bits>>
U32Add(p, n) ==
    LET lo == p[2] + n
    IN  << (p[1] + (lo \div kWord)) % kWord, lo % kWord >>

U32Sub(a, b) ==
    LET lo == a[2] - b[2]
        hi == (a[1] - b[1]) - (IF lo < 0 THEN 1 ELSE 0)
    IN  << (hi + kWord) % kWord, (lo + kWord) % kWord >>

\* v < n, for n up to 2^16
U32Below(v, n) == v[1] = 0 /\ v[2] < n

\* the statics at program start
ButtonStatics ==
    [ btn_last_raw |-> FALSE,
      btn_stable |-> FALSE,
      btn_change_ms |-> <<0, 0>>,
      btn_press_start_ms |-> <<0, 0>>,
      btn_handled |-> FALSE ]

\* if (raw != btn_last_raw) { btn_last_raw = raw; btn_change_ms = now_ms; }
NoteRawChange(b, raw, now) ==
    IF raw # b.btn_last_raw
    THEN [b EXCEPT !.btn_last_raw = raw, !.btn_change_ms = now]
    ELSE b

\* Variant: the debounce window is one millisecond short.
StillBouncingShortWindow(now, change) ==
    U32Below(U32Sub(now, change), DEBOUNCE_MS - 1)

\* (now_ms - btn_change_ms) < DEBOUNCE_MS
StillBouncing(now, change) == U32Below(U32Sub(now, change), DEBOUNCE_MS)

\* Variant: the clock is compared with the sum press start + 1000 instead
\* of the difference with 1000.
LongPressReachedBySum(now, start) ==
    LET due == U32Add(start, LONG_PRESS_MS)
    IN  now[1] > due[1] \/ (now[1] = due[1] /\ now[2] >= due[2])

\* (now_ms - btn_press_start_ms) >= LONG_PRESS_MS
LongPressReached(now, start) ==
    ~U32Below(U32Sub(now, start), LONG_PRESS_MS)

\* Variant: the rising edge leaves btn_handled as it was.
PressEdgeKeepingHandled(b, now) ==
    [ btn |-> [b EXCEPT !.btn_press_start_ms = now], action |-> 0 ]

\* rising edge: record the press start, clear handled, no action
PressEdge(b, now) ==
    [ btn |-> [b EXCEPT !.btn_press_start_ms = now, !.btn_handled = FALSE],
      action |-> 0 ]

\* Variant: the long press is reported without latching btn_handled.
LongPressUnlatched(b) == [ btn |-> b, action |-> 2 ]

\* long press detected while still held
LongPress(b) == [ btn |-> [b EXCEPT !.btn_handled = TRUE], action |-> 2 ]

\* falling edge of a press that was not a long press
ShortPress(b) == [ btn |-> [b EXCEPT !.btn_handled = TRUE], action |-> 1 ]

\* process_button(now_ms), with the pin reading as a parameter;
\* returns the new statics and 0 (none), 1 (short press) or 2 (long press)
process_button(b, raw, now) ==
    LET b1 == NoteRawChange(b, raw, now)
        prev_stable == b1.btn_stable
        b2 == [b1 EXCEPT !.btn_stable = raw]
    IN  IF StillBouncing(now, b1.btn_change_ms)
        THEN [ btn |-> b1, action |-> 0 ]
        ELSE IF b2.btn_stable /\ ~prev_stable
        THEN PressEdge(b2, now)
        ELSE IF /\ b2.btn_stable
                /\ ~b2.btn_handled
                /\ LongPressReached(now, b2.btn_press_start_ms)
        THEN LongPress(b2)
        ELSE IF ~b2.btn_stable /\ prev_stable /\ ~b2.btn_handled
        THEN ShortPress(b2)
        ELSE [ btn |-> b2, action |-> 0 ]

Min(a, b) == IF a < b THEN a ELSE b

ButtonAtRest ==
    /\ btn = ButtonStatics
    /\ btn_action = 0
    /\ raw_run = DEBOUNCE_MS
    /\ held_ms = 0
    /\ cycle_short = 0
    /\ cycle_long = 0
    /\ pressed50 = FALSE
    /\ presses = 0
    /\ btn_calls = 0
    /\ ref_btn = ButtonStatics
    /\ ref_now_ms = << 0, BootMs >>
    /\ ref_action = 0

\* One pass of the main loop's button handling, delta ms after the last:
\* now_ms = to_ms_since_boot(...); btn_action = process_button(now_ms).
DoButton(raw, delta) ==
    \E r \in {process_button(btn, raw, U32Add(now_ms, delta))} :
        LET run == IF raw # btn.btn_last_raw
                   THEN 0
                   ELSE Min(raw_run + delta, DEBOUNCE_MS)
            edge == r.btn.btn_stable /\ ~btn.btn_stable
        IN  /\ now_ms' = U32Add(now_ms, delta)
            /\ btn' = r.btn
            /\ btn_action' = r.action
            /\ raw_run' = run
            /\ held_ms' = IF edge THEN 0
                          ELSE Min(held_ms + delta, LONG_PRESS_MS)
            /\ cycle_short' = (IF edge THEN 0 ELSE cycle_short)
                                 + (IF r.action = 1 THEN 1 ELSE 0)
            /\ cycle_long' = (IF edge THEN 0 ELSE cycle_long)
                                 + (IF r.action = 2 THEN 1 ELSE 0)
            /\ pressed50' = (pressed50 \/ (raw /\ run >= DEBOUNCE_MS))
            /\ presses' = presses + (IF edge THEN 1 ELSE 0)
            /\ ref_now_ms' = U32Add(ref_now_ms, delta)
            /\ \E f \in {process_button(ref_btn, raw,
                                         U32Add(ref_now_ms, delta))} :
                  /\ ref_btn' = f.btn
                  /\ ref_action' = f.action

\* delta - 1 passes, 1 ms apart and with the reading unchanged, in which
\* process_button has nothing to do (no debounced edge falls due in them
\* and no long press), can go before the next pass.
QuietFor(delta) ==
    /\ (btn.btn_stable # btn.btn_last_raw) =>
          raw_run + (delta - 1) < DEBOUNCE_MS
    /\ (btn.btn_stable /\ btn.btn_last_raw /\ ~btn.btn_handled) =>
          \/ raw_run + (delta - 1) < DEBOUNCE_MS
          \/ held_ms + (delta - 1) < LONG_PRESS_MS

\* ------------------------------------------------------------------------
\* main.cpp: outputs, deadlines, MIDI handling and the parts of one pass
\* ------------------------------------------------------------------------

\* to_ms_since_boot(get_absolute_time()) as a uint32_t
ToMs(clock) == << (clock \div kWord) % kWord, clock % kWord >>

make_timeout_time_ms(clock, ms) == clock + ms

\* Variant: an output is left on at the very millisecond of its expiry.
ExpiredStrictly(clock, deadline) == deadline # nil_time /\ clock > deadline

\* !is_nil_time(deadline) && absolute_time_diff_us(now, deadline) <= 0
Expired(clock, deadline) == deadline # nil_time /\ clock >= deadline

\* the statics of main.cpp when main() enters its loop
BoardStatics ==
    [ generative_mode |-> TRUE,
      gpio |-> [i \in Channels |-> FALSE],
      gpio_off_deadline |-> [i \in Channels |-> nil_time],
      led |-> FALSE,
      led_off_deadline |-> nil_time,
      rx |-> << >>,
      clock |-> BootMs,
      last_print_ms |-> ToMs(BootMs),
      count |-> 0 ]

\* Variant: the outputs go low but their deadlines stay pending.
all_solenoids_offKeepingDeadlines(b) ==
    [b EXCEPT !.gpio = [i \in Channels |-> FALSE]]

\* all_solenoids_off()
all_solenoids_off(b) ==
    [b EXCEPT !.gpio = [i \in Channels |-> FALSE],
              !.gpio_off_deadline = [i \in Channels |-> nil_time]]

\* Variant: the quotient is rounded up instead of down.
MidiDurationRoundedUp(data2) == 1 + (((data2 * 99) + 126) \div 127)

\* 1 + (data2 * 99 / 127)
MidiDuration(data2) == 1 + ((data2 * 99) \div 127)

\* Variant: a Note-On fires whatever its velocity.
IsNoteOnAnyVelocity(status, data2) == (status \div 16) * 16 = 144

\* msg_type == 0x90 && data2 != 0
IsNoteOn(status, data2) == (status \div 16) * 16 = 144 /\ data2 # 0

\* handle_midi_packet(packet); packet[0..3] are <<p[1], ..., p[4]>> here
handle_midi_packet(b, packet) ==
    LET status == packet[2]
        data1 == packet[3]
        data2 == packet[4]
        gpio_index == data1 % GPIO_COUNT
        b1 == [b EXCEPT !.led = TRUE,
                        !.led_off_deadline = make_timeout_time_ms(b.clock, 100)]
    IN  IF IsNoteOn(status, data2)
        THEN [b1 EXCEPT !.gpio[gpio_index] = TRUE,
                        !.gpio_off_deadline[gpio_index] =
                            make_timeout_time_ms(b.clock, MidiDuration(data2))]
        ELSE b1

\* Variant: a short press randomizes whatever the mode.
ShortPressActionAnyMode(S) ==
    LET z == Randomize(S.gc, S.grids)
    IN  [S EXCEPT !.gc = z.gc, !.grids = z.grids]

\* Variant: in MIDI mode a short press goes back to generative mode.
ShortPressActionLeavingMidi(S) ==
    IF S.board.generative_mode
    THEN LET z == Randomize(S.gc, S.grids)
         IN  [S EXCEPT !.gc = z.gc, !.grids = z.grids]
    ELSE [S EXCEPT !.board.generative_mode = TRUE]

\* short press: randomize, in generative mode only
ShortPressAction(S) ==
    IF S.board.generative_mode
    THEN LET z == Randomize(S.gc, S.grids)
         IN  [S EXCEPT !.gc = z.gc, !.grids = z.grids]
    ELSE S

\* long press: toggle the mode, all outputs off, re-init or LED off
LongPressAction(S, seed) ==
    LET b1 == all_solenoids_off(
                  [S.board EXCEPT !.generative_mode = ~S.board.generative_mode])
    IN  IF b1.generative_mode
        THEN LET z == ControllerInit(S.gc, S.grids, seed, DEFAULT_BPM_TENTHS)
             IN  [S EXCEPT !.board = b1, !.gc = z.gc, !.grids = z.grids]
        ELSE [S EXCEPT !.board = [b1 EXCEPT !.led = FALSE,
                                            !.led_off_deadline = nil_time]]

\* now_ms = to_ms_since_boot(...); btn_action = process_button(now_ms);
\* then the handling of the action
HandleButton(S, raw, seed) ==
    LET now == ToMs(S.board.clock)
        r == process_button(S.btn, raw, now)
        S1 == [S EXCEPT !.btn = r.btn, !.btn_action = r.action,
                        !.now_ms = now]
    IN  IF r.action = 1 THEN ShortPressAction(S1)
        ELSE IF r.action = 2 THEN LongPressAction(S1, seed)
        ELSE S1

\* Variant: a firing never shortens a pulse in progress.
FireOutputsExtendingOnly(b, ev) ==
    [b EXCEPT !.gpio = [i \in Channels |->
                           MaskBit(ev.gpio_mask, i) \/ b.gpio[i]],
              !.gpio_off_deadline = [i \in Channels |->
                           IF MaskBit(ev.gpio_mask, i)
                           THEN IF b.gpio_off_deadline[i] >
                                   make_timeout_time_ms(b.clock,
                                                        ev.duration_ms[i])
                                THEN b.gpio_off_deadline[i]
                                ELSE make_timeout_time_ms(b.clock,
                                                          ev.duration_ms[i])
                           ELSE b.gpio_off_deadline[i]]]

\* fire solenoids from generative triggers
FireOutputs(b, ev) ==
    [b EXCEPT !.gpio = [i \in Channels |->
                           MaskBit(ev.gpio_mask, i) \/ b.gpio[i]],
              !.gpio_off_deadline = [i \in Channels |->
                           IF MaskBit(ev.gpio_mask, i)
                           THEN make_timeout_time_ms(b.clock,
                                                     ev.duration_ms[i])
                           ELSE b.gpio_off_deadline[i]]]

\* Variant: the whole backlog is taken in one pass.
MidiAvailableUncapped(rx) == Len(rx)

\* tud_midi_available(), capped at 32
MidiAvailable(rx) == Min(Len(rx), max_packets)

\* tud_midi_packet_read(packet): a whole packet is taken from the queue;
\* an incomplete entry fails the read and is gone
tud_midi_packet_read(rx) ==
    [ ok |-> Len(Head(rx)) = 4, packet |-> Head(rx), rx |-> Tail(rx) ]

\* "for (i < midi_packets) { if (!tud_midi_packet_read(packet)) break; }":
\* the queue left behind and the reads made, n reads being still allowed
RECURSIVE DrainMidi(_, _, _)
DrainMidi(rx, n, made) ==
    IF n = 0 THEN [ rx |-> rx, reads |-> made ]
    ELSE LET r == tud_midi_packet_read(rx)
         IN  IF r.ok THEN DrainMidi(r.rx, n - 1, made + 1)
             ELSE [ rx |-> r.rx, reads |-> made + 1 ]

\* Variant: the first packet waiting is handled instead of discarded.
AfterTickHandlingMidi(S, t) ==
    LET b1 == IF t.event.gpio_mask # 0
              THEN FireOutputs(S.board, t.event) ELSE S.board
        b2 == IF t.gc.current_step % 8 = 0
              THEN [b1 EXCEPT !.led = TRUE,
                              !.led_off_deadline =
                                  make_timeout_time_ms(b1.clock, 50)]
              ELSE b1
        b3 == IF b2.rx # << >> /\ Len(Head(b2.rx)) = 4
              THEN handle_midi_packet(
                       [b2 EXCEPT !.rx = DrainMidi(b2.rx, MidiAvailable(b2.rx),
                                                   0).rx],
                       Head(b2.rx))
              ELSE [b2 EXCEPT !.rx = DrainMidi(b2.rx, MidiAvailable(b2.rx),
                                               0).rx]
    IN  [S EXCEPT !.gc = t.gc, !.grids = t.grids, !.event = t.event,
                  !.board = b3]

\* generative mode, after event = gen_controller.Tick(): fire, LED beat
\* indicator, drain MIDI
AfterTick(S, t) ==
    LET b1 == IF t.event.gpio_mask # 0
              THEN FireOutputs(S.board, t.event) ELSE S.board
        b2 == IF t.gc.current_step % 8 = 0
              THEN [b1 EXCEPT !.led = TRUE,
                              !.led_off_deadline =
                                  make_timeout_time_ms(b1.clock, 50)]
              ELSE b1
        b3 == [b2 EXCEPT !.rx = DrainMidi(b2.rx, MidiAvailable(b2.rx), 0).rx]
    IN  [S EXCEPT !.gc = t.gc, !.grids = t.grids, !.event = t.event,
                  !.board = b3]

\* generative mode: Tick (evaluated once), then the above
GenerativeStep(S) ==
    CHOOSE R \in {AfterTick(S, t) : t \in {Tick(S.gc, S.grids)}} : TRUE

\* Variant: an expired output goes low but its deadline stays set.
CheckDeadlinesKeepingDeadline(b) ==
    [b EXCEPT !.led = IF Expired(b.clock, b.led_off_deadline)
                      THEN FALSE ELSE b.led,
              !.led_off_deadline = IF Expired(b.clock, b.led_off_deadline)
                                   THEN nil_time ELSE b.led_off_deadline,
              !.gpio = [i \in Channels |->
                           IF Expired(b.clock, b.gpio_off_deadline[i])
                           THEN FALSE ELSE b.gpio[i]]]

\* shared LED and solenoid deadline checks
CheckDeadlines(b) ==
    [b EXCEPT !.led = IF Expired(b.clock, b.led_off_deadline)
                      THEN FALSE ELSE b.led,
              !.led_off_deadline = IF Expired(b.clock, b.led_off_deadline)
                                   THEN nil_time ELSE b.led_off_deadline,
              !.gpio = [i \in Channels |->
                           IF Expired(b.clock, b.gpio_off_deadline[i])
                           THEN FALSE ELSE b.gpio[i]],
              !.gpio_off_deadline = [i \in Channels |->
                           IF Expired(b.clock, b.gpio_off_deadline[i])
                           THEN nil_time ELSE b.gpio_off_deadline[i]]]

\* heartbeat (MIDI mode only), once a second
Heartbeat(b, now) ==
    IF ~b.generative_mode /\ ~U32Below(U32Sub(now, b.last_print_ms), 1000)
    THEN [b EXCEPT !.last_print_ms = now, !.count = b.count + 1]
    ELSE b

\* deadline checks, heartbeat, sleep_ms(1): the pass ends delta ms after
\* it began, and the packets that came in meanwhile are in the queue
EndOfPass(S, delta, arrived) ==
    LET b1 == Heartbeat(CheckDeadlines(S.board), S.now_ms)
    IN  [S EXCEPT !.board = [b1 EXCEPT !.clock = b1.clock + delta,
                                       !.rx = b1.rx \o arrived]]

\* main() up to the loop: Init(seed, DEFAULT_BPM_TENTHS) on the controller
Booted(seed) ==
    LET z == ControllerInit(Constructed, GridsStatic, seed,
                            DEFAULT_BPM_TENTHS)
    IN  [ gc |-> z.gc, grids |-> z.grids, event |-> EmptyEvent,
          btn |-> ButtonStatics, btn_action |-> 0, now_ms |-> <<0, 0>>,
          board |-> BoardStatics ]

\* one whole pass with nothing received
WholePass(S, raw, delta) ==
    CHOOSE R \in {EndOfPass(S2, delta, << >>) :
                     S2 \in {IF S1.board.generative_mode
                             THEN GenerativeStep(S1) ELSE S1 :
                                S1 \in {HandleButton(S, raw, <<0, 0>>)}}} :
        TRUE

RECURSIVE Repeat(_, _, _, _)
Repeat(S, raw, delta, n) ==
    IF n = 0 THEN S
    ELSE CHOOSE R \in {Repeat(T, raw, delta, n - 1) :
                          T \in {WholePass(S, raw, delta)}} : TRUE

RECURSIVE Prelude(_, _)
Prelude(S, runs) ==
    IF runs = << >> THEN S
    ELSE CHOOSE R \in {Prelude(T, Tail(runs)) :
                          T \in {Repeat(S, Head(runs)[1], Head(runs)[2],
                                        Head(runs)[3])}} : TRUE

MainAtRest ==
    /\ board = BoardStatics
    /\ pc = "button"
    /\ midi_packets = 0
    /\ last_packet = << >>
    /\ reads = 0
    /\ switched_off = 0
    /\ shortened = 0
    /\ cleared = 0
    /\ passes = 0
    /\ toggles = 0
    /\ arrivals = 0

\* ------------------------------------------------------------------------
\* The controller driven through its API
\* ------------------------------------------------------------------------
HarnessAtRest ==
    /\ last_op = "ctor"
    /\ evaluated = FALSE
    /\ pulsed = FALSE
    /\ ticks = 0
    /\ ops = 0
    /\ inited = FALSE
    /\ const_tempo = TRUE
    /\ no_rand = TRUE
    /\ n_ticks = 0
    /\ n_pulses = 0
    /\ r_pulses = 0
    /\ r_evals = 0
    /\ fires = [i \in Channels |-> 0]
    /\ last_tempo = 0
    /\ last_arg = 0
    /\ ref_gc = Constructed
    /\ ref_grids = GridsStatic
    /\ ref_event = EmptyEvent
    /\ same_tempo = TRUE

ControllerAtRest ==
    /\ gc = Constructed
    /\ grids = GridsStatic
    /\ event = EmptyEvent
    /\ HarnessAtRest

Init ==
    /\ oracle \in Oracles
    /\ ControllerAtRest
    /\ ButtonAtRest
    /\ now_ms = <<0, 0>>
    /\ MainAtRest

\* Each call below binds the result of the method once (\E over a
\* singleton) and copies it into the state.

\* gen_controller.Init(seed, bpm_tenths)
DoInit(seed, bpm) ==
    \E r \in {ControllerInit(gc, grids, seed, bpm)} :
        /\ gc' = r.gc
        /\ grids' = r.grids
        /\ last_op' = "Init"
        /\ inited' = TRUE
        /\ const_tempo' = TRUE
        /\ no_rand' = TRUE
        /\ n_ticks' = 0
        /\ n_pulses' = 0
        /\ r_pulses' = 0
        /\ r_evals' = 0
        /\ fires' = [i \in Channels |-> 0]
        /\ last_tempo' = IF bpm > 0 THEN bpm ELSE last_tempo
        /\ last_arg' = bpm
        /\ \E f \in {ControllerInit(Constructed, GridsStatic, seed, bpm)} :
              /\ ref_gc' = f.gc
              /\ ref_grids' = f.grids
              /\ same_tempo' = (r.gc.us_per_pulse = f.gc.us_per_pulse)
        /\ UNCHANGED << oracle, event, evaluated, pulsed, ref_event >>

\* gen_controller.SetBpm(bpm_tenths)
DoSetBpm(bpm) ==
    /\ gc' = SetBpm(gc, bpm)
    /\ last_op' = "SetBpm"
    /\ const_tempo' = (const_tempo /\ gc'.us_per_pulse = gc.us_per_pulse)
    /\ last_tempo' = IF bpm > 0 THEN bpm ELSE last_tempo
    /\ last_arg' = bpm
    /\ ref_gc' = SetBpm(ref_gc, bpm)
    /\ UNCHANGED << grids, oracle, event, evaluated, pulsed, inited,
                    no_rand, n_ticks, n_pulses, r_pulses, r_evals, fires,
                    ref_grids, ref_event, same_tempo >>

\* gen_controller.Randomize()
DoRandomize ==
    \E r \in {Randomize(gc, grids)} :
        /\ gc' = r.gc
        /\ grids' = r.grids
        /\ last_op' = "Randomize"
        /\ no_rand' = FALSE
        /\ r_pulses' = 0
        /\ r_evals' = 0
        /\ fires' = [i \in Channels |-> 0]
        /\ \E f \in {Randomize(ref_gc, ref_grids)} :
              /\ ref_gc' = f.gc
              /\ ref_grids' = f.grids
        /\ UNCHANGED << oracle, event, evaluated, pulsed, inited,
                        const_tempo, n_ticks, n_pulses, last_tempo,
                        last_arg, ref_event, same_tempo >>

\* gen_controller.Tick()
DoTick ==
    \E r \in {Tick(gc, grids)} :
        /\ gc' = r.gc
        /\ grids' = r.grids
        /\ event' = r.event
        /\ evaluated' = r.evaluated
        /\ pulsed' = r.pulsed
        /\ last_op' = "Tick"
        /\ n_ticks' = n_ticks + 1
        /\ n_pulses' = n_pulses + (IF r.pulsed THEN 1 ELSE 0)
        /\ r_pulses' = r_pulses + (IF r.pulsed THEN 1 ELSE 0)
        /\ r_evals' = r_evals + (IF r.evaluated THEN 1 ELSE 0)
        /\ fires' = [i \in Channels |->
                       fires[i] + (IF MaskBit(r.event.gpio_mask, i) THEN 1 ELSE 0)]
        /\ \E f \in {Tick(ref_gc, ref_grids)} :
              /\ ref_gc' = f.gc
              /\ ref_grids' = f.grids
              /\ ref_event' = f.event
        /\ UNCHANGED << oracle, inited, const_tempo, no_rand, last_tempo,
                        last_arg, same_tempo >>

\* Any interleaving of API calls, within the bounds.
CallInit ==
    /\ UNCHANGED << btn_vars, main_vars >>
    /\ ops < MaxOps
    /\ ops' = ops + 1
    /\ UNCHANGED ticks
    /\ \E seed \in Seeds, bpm \in Tempos : DoInit(seed, bpm)

CallSetBpm ==
    /\ UNCHANGED << btn_vars, main_vars >>
    /\ ops < MaxOps
    /\ ops' = ops + 1
    /\ UNCHANGED ticks
    /\ \E bpm \in Tempos : DoSetBpm(bpm)

CallRandomize ==
    /\ UNCHANGED << btn_vars, main_vars >>
    /\ ops < MaxOps
    /\ ops' = ops + 1
    /\ UNCHANGED ticks
    /\ DoRandomize

CallTick ==
    /\ UNCHANGED << btn_vars, main_vars >>
    /\ ticks < MaxTicks
    /\ ticks' = ticks + 1
    /\ UNCHANGED ops
    /\ DoTick

Next == CallInit \/ CallSetBpm \/ CallRandomize \/ CallTick

Spec == Init /\ [][Next]_vars

\* A long uninterrupted run: one Init, then Ticks over more than a whole
\* 32-step pattern, with at most one SetBpm or Randomize on the way.
LongInit ==
    /\ UNCHANGED << btn_vars, main_vars >>
    /\ ~inited
    /\ ops' = 1
    /\ UNCHANGED ticks
    /\ \E seed \in LongSeeds, bpm \in LongTempos : DoInit(seed, bpm)

LongSetBpm ==
    /\ UNCHANGED << btn_vars, main_vars >>
    /\ inited
    /\ ops < 2
    /\ ops' = ops + 1
    /\ UNCHANGED ticks
    /\ \E bpm \in LongTempos : DoSetBpm(bpm)

LongRandomize ==
    /\ UNCHANGED << btn_vars, main_vars >>
    /\ inited
    /\ ops < 2
    /\ ops' = ops + 1
    /\ UNCHANGED ticks
    /\ DoRandomize

LongTick ==
    /\ UNCHANGED << btn_vars, main_vars >>
    /\ inited
    /\ ticks < MaxLongTicks
    /\ ticks' = ticks + 1
    /\ UNCHANGED ops
    /\ DoTick

NextLong == LongInit \/ LongSetBpm \/ LongRandomize \/ LongTick

SpecLong == Init /\ [][NextLong]_vars

\* The button alone: single 1 ms passes, and quiet runs ending in a pass.
InitButton ==
    /\ oracle = "max"
    /\ ControllerAtRest
    /\ ButtonAtRest
    /\ now_ms \in BootTimes
    /\ MainAtRest

ButtonPoll ==
    /\ btn_calls < MaxBtnCalls
    /\ btn_calls' = btn_calls + 1
    /\ \E raw \in BOOLEAN : DoButton(raw, 1)
    /\ UNCHANGED << ctl_vars, main_vars >>

ButtonQuiet ==
    /\ btn_calls < MaxBtnCalls
    /\ btn_calls' = btn_calls + 1
    /\ \E delta \in QuietJumps, raw \in BOOLEAN :
          /\ QuietFor(delta)
          /\ DoButton(raw, delta)
    /\ UNCHANGED << ctl_vars, main_vars >>

NextButton == ButtonPoll \/ ButtonQuiet

SpecButton == InitButton /\ [][NextButton]_vars

\* The main loop, one pass in three or more steps: the button, the mode's
\* processing (packet by packet in MIDI mode), the end of the pass.  The
\* key is used cleanly here (its reading changes only when the last change
\* has been debounced; bounces are the subject of SpecButton) and passes
\* longer than 1 ms are explored only while a press is being held or,
\* up to 50 ms, while a change is being debounced or an output is on.
MainState ==
    [ gc |-> gc, grids |-> grids, event |-> event, btn |-> btn,
      btn_action |-> btn_action, now_ms |-> now_ms, board |-> board ]

Install(S) ==
    /\ gc' = S.gc
    /\ grids' = S.grids
    /\ event' = S.event
    /\ btn' = S.btn
    /\ btn_action' = S.btn_action
    /\ now_ms' = S.now_ms
    /\ board' = S.board

harness_vars == << oracle, last_op, evaluated, pulsed, ticks, ops, inited,
                   const_tempo, no_rand, n_ticks, n_pulses, r_pulses,
                   r_evals, fires, last_tempo, last_arg, ref_gc, ref_grids,
                   ref_event, same_tempo, raw_run, held_ms, cycle_short,
                   cycle_long, pressed50, presses, btn_calls, ref_btn,
                   ref_now_ms, ref_action >>

OutputsOn(b) == Cardinality({i \in Channels : b.gpio[i]})

Shortened(b, c) ==
    Cardinality({i \in Channels :
                    /\ b.gpio[i] /\ c.gpio[i]
                    /\ c.gpio_off_deadline[i] < b.gpio_off_deadline[i]})

InitMain ==
    /\ oracle = "max"
    /\ HarnessAtRest
    /\ raw_run = DEBOUNCE_MS
    /\ held_ms = 0
    /\ cycle_short = 0
    /\ cycle_long = 0
    /\ pressed50 = FALSE
    /\ presses = 0
    /\ btn_calls = 0
    /\ ref_btn = ButtonStatics
    /\ ref_now_ms = << 0, BootMs >>
    /\ ref_action = 0
    /\ \E seed \in BootSeeds, runs \in Preludes :
          \E S \in {Prelude(Booted(seed), runs)} :
              /\ gc = S.gc
              /\ grids = S.grids
              /\ event = S.event
              /\ btn = S.btn
              /\ btn_action = S.btn_action
              /\ now_ms = S.now_ms
              /\ board = S.board
    /\ pc = "button"
    /\ midi_packets = 0
    /\ last_packet = << >>
    /\ reads = 0
    /\ switched_off = 0
    /\ shortened = 0
    /\ cleared = 0
    /\ passes = 0
    /\ toggles = 0
    /\ arrivals = 0

MainButton ==
    /\ pc = "button"
    /\ passes < MaxPasses
    /\ \E raw \in BOOLEAN, seed \in MainSeeds :
          /\ (raw # btn.btn_last_raw) =>
                (toggles < MaxToggles /\ btn.btn_last_raw = btn.btn_stable)
          /\ toggles' = toggles + (IF raw # btn.btn_last_raw THEN 1 ELSE 0)
          /\ \E S \in {HandleButton(MainState, raw, seed)} :
                /\ Install(S)
                /\ cleared' = IF S.btn_action = 2 THEN OutputsOn(board)
                              ELSE 0
    /\ pc' = "mode"
    /\ last_packet' = << >>
    /\ reads' = 0
    /\ shortened' = 0
    /\ UNCHANGED << harness_vars, midi_packets, switched_off, passes,
                    arrivals >>

MainGenerative ==
    /\ pc = "mode"
    /\ board.generative_mode
    /\ \E S \in {GenerativeStep(MainState)} : Install(S)
    /\ reads' = DrainMidi(board.rx, MidiAvailable(board.rx), 0).reads
    /\ shortened' = Shortened(board, board')
    /\ pc' = "deadlines"
    /\ UNCHANGED << harness_vars, midi_packets, last_packet, switched_off,
                    cleared, passes, toggles, arrivals >>

MainMidi ==
    /\ pc = "mode"
    /\ ~board.generative_mode
    /\ midi_packets' = MidiAvailable(board.rx)
    /\ pc' = IF MidiAvailable(board.rx) > 0 THEN "packets" ELSE "deadlines"
    /\ UNCHANGED << ctl_vars, btn_vars, board, last_packet, reads,
                    switched_off, shortened, cleared, passes, toggles,
                    arrivals >>

\* tud_midi_packet_read(packet); handle_midi_packet(packet)
MainMidiPacket ==
    /\ pc = "packets"
    /\ reads' = reads + 1
    /\ \E r \in {tud_midi_packet_read(board.rx)} :
          IF r.ok
          THEN /\ board' = handle_midi_packet([board EXCEPT !.rx = r.rx],
                                              r.packet)
               /\ last_packet' = r.packet
               /\ midi_packets' = midi_packets - 1
               /\ pc' = IF midi_packets = 1 THEN "deadlines" ELSE "packets"
          ELSE /\ board' = [board EXCEPT !.rx = r.rx]
               /\ last_packet' = << >>
               /\ midi_packets' = midi_packets
               /\ pc' = "deadlines"
    /\ shortened' = Shortened(board, board')
    /\ UNCHANGED << ctl_vars, btn_vars, switched_off, cleared, passes,
                    toggles, arrivals >>

MainEndOfPass ==
    /\ pc = "deadlines"
    /\ \E delta \in PassTimes, arrived \in {<< >>} \cup Transfers :
          /\ (delta > 1) =>
                \/ btn.btn_stable /\ ~btn.btn_handled
                \/ delta = 50 /\ btn.btn_last_raw # btn.btn_stable
                \/ delta = 50 /\ OutputsOn(board) > 0
          /\ (arrived # << >>) => arrivals < MaxArrivals
          /\ arrivals' = arrivals + (IF arrived # << >> THEN 1 ELSE 0)
          /\ switched_off' = Cardinality({i \in Channels :
                                 board.gpio[i] /\ ~CheckDeadlines(board).gpio[i]})
          /\ \E S \in {EndOfPass(MainState, delta, arrived)} : Install(S)
    /\ pc' = "button"
    /\ passes' = passes + 1
    /\ last_packet' = << >>
    /\ UNCHANGED << harness_vars, midi_packets, reads, shortened, cleared,
                    toggles >>

NextMain ==
    \/ MainButton
    \/ MainGenerative
    \/ MainMidi
    \/ MainMidiPacket
    \/ MainEndOfPass

SpecMain == InitMain /\ [][NextMain]_vars

TypeOK ==
    /\ gc.current_step \in 0 .. 255
    /\ gc.pulse_in_step \in 0 .. 255
    /\ event.gpio_mask \in 0 .. 255

\* ------------------------------------------------------------------------
\* Properties
\* ------------------------------------------------------------------------

\* C1: on every Tick, a channel whose bit is set in the returned gpio_mask
\* has its velocity_step advanced by one modulo 32, and a channel whose bit
\* is clear (also on Ticks that cross no step boundary) keeps velocity_step.
C1_CursorAdvancesIffFired ==
    [][ last_op' = "Tick" =>
          \A i \in Channels :
              gc'.channels[i].velocity_step =
                  IF MaskBit(event'.gpio_mask, i)
                  THEN (gc.channels[i].velocity_step + 1) % 32
                  ELSE gc.channels[i].velocity_step ]_vars

\* A step evaluation in which one channel fired and another did not.
C1_Witness ==
    /\ last_op = "Tick"
    /\ evaluated
    /\ \E i, j \in Channels :
          /\ MaskBit(event.gpio_mask, i)
          /\ gc.channels[i].velocity_step = 1
          /\ ~MaskBit(event.gpio_mask, j)
          /\ gc.channels[j].velocity_step = 0

\* C2: after a Tick that evaluated the channel bank, bit i of gpio_mask is
\* set iff the drum-map level of (current_step, drum_part, x, y) is strictly
\* above 255 - density, and duration_ms[i] is non-zero iff bit i is set.
C2_FiresIffLevelAboveBar ==
    (last_op = "Tick" /\ evaluated) =>
        \A i \in Channels :
            LET ch == gc.channels[i]
                level == DrumMap(oracle, gc.current_step, ch.drum_part,
                                 ch.x, ch.y)
            IN  /\ MaskBit(event.gpio_mask, i) <=> (level > 255 - ch.density)
                /\ (event.duration_ms[i] # 0) <=> MaskBit(event.gpio_mask, i)
                /\ (level = 0) => ~MaskBit(event.gpio_mask, i)

\* An evaluation in which a channel's level was exactly at its trigger bar
\* (and did not fire) while another channel fired.
C2_Witness ==
    /\ last_op = "Tick"
    /\ evaluated
    /\ \E i, j \in Channels :
          LET ch == gc.channels[i]
          IN  /\ DrumMap(oracle, gc.current_step, ch.drum_part, ch.x, ch.y)
                     = 255 - ch.density
              /\ ~MaskBit(event.gpio_mask, i)
              /\ event.duration_ms[i] = 0
              /\ MaskBit(event.gpio_mask, j)

\* C3: the k-th firing of a channel since the last reset lasts 100 ms if
\* bit (k mod 32) of its velocity_bits is 1 and 1 ms otherwise, whatever
\* the number of silent steps in between; the cursor always equals the
\* number of firings modulo 32, so 32 firings bring it back to its start.
C3_VelocityIsTriggerIndexed ==
    [][ last_op' = "Tick" =>
          \A i \in Channels :
              /\ MaskBit(event'.gpio_mask, i) =>
                    event'.duration_ms[i] =
                        IF U32Bit(gc.channels[i].velocity_bits,
                                  fires[i] % 32) = 1
                        THEN 100 ELSE 1
              /\ gc'.channels[i].velocity_step = fires'[i] % 32 ]_vars

\* A channel fires for the 32nd time since the reset and its cursor is back
\* at 0, the value it started from.
C3_Witness ==
    /\ last_op = "Tick"
    /\ \E i \in Channels :
          /\ MaskBit(event.gpio_mask, i)
          /\ fires[i] = 32
          /\ gc.channels[i].velocity_step = 0

\* C4: between two resets the channel bank is evaluated exactly once per
\* step boundary: on the Tick in which the 3rd, 6th, ... pulse elapses and
\* on no other Tick.
C4_EvaluatedOncePerBoundary ==
    /\ r_evals = r_pulses \div 3
    /\ last_op = "Tick" =>
          /\ evaluated <=> (pulsed /\ r_pulses % 3 = 0)
          /\ evaluated => (gc.pulse_in_step = 0 /\ gc.step_evaluated)
          /\ (gc.pulse_in_step # 0) => ~evaluated

\* The second step boundary since a reset has just been evaluated.
C4_Witness ==
    /\ last_op = "Tick"
    /\ evaluated
    /\ r_pulses = 6
    /\ r_evals = 2

\* C5: us_per_pulse is 25,000,000 div the most recent non-zero tempo given
\* to Init or SetBpm, or 0 (the constructor value) if there was none; a
\* zero tempo leaves it as it was.
C5_UsPerPulse ==
    /\ gc.us_per_pulse =
          IF last_tempo = 0 THEN 0 ELSE 25000000 \div last_tempo
    /\ (last_op \in {"Init", "SetBpm"} /\ last_arg > 0) =>
          gc.us_per_pulse = 25000000 \div last_arg

\* SetBpm(0) after a non-zero tempo was configured.
C5_Witness ==
    /\ last_op = "SetBpm"
    /\ last_arg = 0
    /\ last_tempo = 25000
    /\ gc.us_per_pulse = 1000

\* C6: SetBpm(0) is a no-op on the whole timing state: bpm_tenths,
\* us_per_pulse, us_accumulator, current_step and pulse_in_step are all as
\* they were before the call.
C6_SetBpmZeroIsNoOp ==
    [][ (last_op' = "SetBpm" /\ last_arg' = 0) =>
          /\ gc'.bpm_tenths = gc.bpm_tenths
          /\ gc'.us_per_pulse = gc.us_per_pulse
          /\ gc'.us_accumulator = gc.us_accumulator
          /\ gc'.current_step = gc.current_step
          /\ gc'.pulse_in_step = gc.pulse_in_step ]_vars

\* C7: SetBpm(T) changes only bpm_tenths and us_per_pulse; the sequence
\* position, step_evaluated, the accumulator, the channels, the generator
\* state and the pattern generator are left as they were.
C7_SetBpmFrame ==
    [][ last_op' = "SetBpm" =>
          /\ gc'.us_accumulator = gc.us_accumulator
          /\ gc'.current_step = gc.current_step
          /\ gc'.pulse_in_step = gc.pulse_in_step
          /\ gc'.step_evaluated = gc.step_evaluated
          /\ gc'.channels = gc.channels
          /\ gc'.rng_state = gc.rng_state
          /\ grids' = grids
          /\ event' = event ]_vars

\* A tempo change made in the middle of a step, with surplus accumulated.
C7_Witness ==
    /\ last_op = "SetBpm"
    /\ inited
    /\ ~const_tempo
    /\ gc.us_accumulator > 0
    /\ gc.pulse_in_step > 0
    /\ gc.current_step > 0

\* C8: with a constant tempo whose us_per_pulse P is at least 1000, after N
\* Ticks following Init floor(1000*N / P) pulses have elapsed and
\* us_accumulator is 1000*N - pulses*P; ticks summing to exactly P give one
\* pulse, ticks summing to exactly 3*P give one step with pulse_in_step 0.
C8_PulsesAndSurplus ==
    (inited /\ const_tempo /\ gc.us_per_pulse >= 1000) =>
        /\ n_pulses = (1000 * n_ticks) \div gc.us_per_pulse
        /\ gc.us_accumulator = (1000 * n_ticks) - (n_pulses * gc.us_per_pulse)
        /\ (1000 * n_ticks = gc.us_per_pulse) => n_pulses = 1
        /\ (1000 * n_ticks = 3 * gc.us_per_pulse /\ no_rand) =>
              /\ n_pulses = 3
              /\ gc.current_step = 1
              /\ gc.pulse_in_step = 0

\* Three pulses have elapsed since Init and a surplus is being carried.
C8_Witness ==
    /\ inited
    /\ const_tempo
    /\ no_rand
    /\ gc.us_per_pulse = 2500
    /\ n_ticks = 8
    /\ n_pulses = 3
    /\ gc.us_accumulator = 500
    /\ gc.current_step = 1

\* C9: after every Tick all whole pulses have been consumed, i.e.
\* us_accumulator < us_per_pulse, for every configured tempo and also after
\* a tempo change.
C9_AccumulatorBelowPulse ==
    (last_op = "Tick" /\ last_tempo > 0) =>
        gc.us_accumulator < gc.us_per_pulse

\* C10: current_step is in 0..31, pulse_in_step in 0..2 and every
\* channel's velocity_step in 0..31, in every reachable state.
C10_Ranges ==
    /\ gc.current_step \in 0 .. 31
    /\ gc.pulse_in_step \in 0 .. 2
    /\ \A i \in Channels : gc.channels[i].velocity_step \in 0 .. 31

\* The last pulse of the last step, with a cursor on its last position:
\* the next Tick wraps all three.
C10_Witness ==
    /\ gc.current_step = 31
    /\ gc.pulse_in_step = 2
    /\ \E i \in Channels : gc.channels[i].velocity_step = 31

\* C11: after every Randomize (hence every Init) each channel has
\* drum_part in 0..2, x and y in 0..255, density in 100..199 and
\* velocity_step 0; no other call writes density, so once the channels
\* have been rolled the trigger bar 255 - density stays in 56..155.
C11_RolledChannelRanges ==
    /\ (last_op \in {"Init", "Randomize"}) =>
          \A i \in Channels : gc.channels[i].velocity_step = 0
    /\ (inited \/ ~no_rand) =>
          \A i \in Channels :
              /\ gc.channels[i].drum_part \in 0 .. 2
              /\ gc.channels[i].x \in 0 .. 255
              /\ gc.channels[i].y \in 0 .. 255
              /\ gc.channels[i].density \in 100 .. 199
              /\ (255 - gc.channels[i].density) \in 56 .. 155

\* A Randomize made after every channel had already fired, so that the
\* cursors it resets were not at 0.
C11_Witness ==
    /\ last_op = "Randomize"
    /\ inited
    /\ oracle = "max"
    /\ n_pulses >= 3
    /\ \A i \in Channels : gc.channels[i].velocity_step = 0

C14_DebouncedOnly ==
    [][ /\ (btn'.btn_stable # btn.btn_stable \/ btn_action' # 0) =>
              raw_run' >= 50
        /\ (btn_action' # 0) => pressed50' ]_vars

\* After at least three earlier passes in which the reading never stayed
\* pressed for 50 ms, it has now been pressed for 49 ms: the debounced
\* state has not moved and nothing has been reported.
C14_Witness ==
    /\ btn_calls >= 4
    /\ btn.btn_last_raw
    /\ raw_run = 49
    /\ ~pressed50
    /\ ~btn.btn_stable
    /\ presses = 0
    /\ btn_action = 0

\* C15: between a debounced press edge and the next one at most one action
\* is emitted, and by the debounced release exactly one: a ShortPress is
\* emitted only in the call of the debounced release, a LongPress only
\* while the button stays debounced-Pressed and 1000 ms or more after the
\* press edge (so a press released 200 ms after it yields one ShortPress),
\* and a press whose reading is still steadily pressed 1000 ms after the
\* edge yields its LongPress in that call.
C15_OneActionPerPress ==
    [][ /\ cycle_short' + cycle_long' <= 1
        /\ (btn.btn_stable /\ ~btn'.btn_stable) =>
              cycle_short' + cycle_long' = 1
        /\ (btn_action' = 1) =>
              (btn.btn_stable /\ ~btn'.btn_stable /\ cycle_long' = 0)
        /\ (btn_action' = 2) =>
              /\ btn.btn_stable /\ btn'.btn_stable /\ cycle_short' = 0
              /\ held_ms' >= 1000
        /\ ( /\ btn.btn_stable /\ ~btn.btn_handled
             /\ btn'.btn_last_raw /\ raw_run' >= 50
             /\ held_ms' >= 1000 ) => btn_action' = 2 ]_vars

\* The debounced release of a press that was reported as a LongPress once:
\* the release itself emits nothing.
C15_Witness ==
    /\ ~btn.btn_stable
    /\ raw_run = 50
    /\ presses = 1
    /\ cycle_long = 1
    /\ cycle_short = 0
    /\ btn_action = 0
    /\ btn_calls <= 5

\* C16: in every process_button call that finds the debounced state
\* Pressed and handled false at a time 1000 ms or more after the debounced
\* press, LongPress is emitted and handled is set; and no press whose
\* debounced duration has reached 1000 ms is reported as a ShortPress.
C16_LongPressAtThreshold ==
    [][ /\ (btn.btn_stable /\ ~btn.btn_handled /\ held_ms' >= 1000) =>
              (btn_action' = 2 /\ btn'.btn_handled)
        /\ (btn_action' = 1) => held_ms' < 1000 ]_vars

\* C17: btn_handled goes from true to false only in the call that detects
\* a debounced press edge, and that call always leaves it false; a reading
\* held released for 50 ms and then pressed for 50 ms is always taken as
\* such an edge, so the next press is reported again.
C17_HandledClearedAtPressEdge ==
    [][ /\ (btn.btn_handled /\ ~btn'.btn_handled) =>
              (~btn.btn_stable /\ btn'.btn_stable)
        /\ (~btn.btn_stable /\ btn'.btn_stable) =>
              (~btn'.btn_handled /\ cycle_short' + cycle_long' = 0)
        /\ (raw_run' >= 50) => btn'.btn_stable = btn'.btn_last_raw ]_vars

\* A second press, after one that ended handled, has been reported.
C17_Witness ==
    /\ presses = 2
    /\ btn_action # 0
    /\ btn.btn_handled
    /\ cycle_short + cycle_long = 1

\* C12: the Randomize made on a short press in generative mode leaves the
\* position at step 0, pulse 0, not evaluated; it returns no fire event
\* and changes no output and no off-deadline (outputs that are on stay
\* on), and it leaves bpm_tenths, us_per_pulse and us_accumulator as they
\* were.
C12_RandomizeFrame ==
    [][ (pc = "button" /\ btn_action' = 1 /\ board.generative_mode) =>
          /\ gc'.current_step = 0
          /\ gc'.pulse_in_step = 0
          /\ gc'.step_evaluated = FALSE
          /\ event' = event
          /\ board'.gpio = board.gpio
          /\ board'.gpio_off_deadline = board.gpio_off_deadline
          /\ gc'.bpm_tenths = gc.bpm_tenths
          /\ gc'.us_per_pulse = gc.us_per_pulse
          /\ gc'.us_accumulator = gc.us_accumulator ]_vars

\* Randomize has just run while outputs fired by the first step were on
\* and the pulse clock was part-way through a pulse.
C12_Witness ==
    /\ pc = "mode"
    /\ btn_action = 1
    /\ board.generative_mode
    /\ OutputsOn(board) > 0
    /\ \E i \in Channels : board.gpio_off_deadline[i] > board.clock
    /\ gc.us_accumulator > 0
    /\ gc.current_step = 0
    /\ event.gpio_mask # 0

\* C18: handling a ShortPress in generative mode is one call of Randomize
\* and nothing else; in MIDI mode it changes nothing: mode, channel bank,
\* sequencer clock, outputs, deadlines all stay as they were.
C18_ShortPressByMode ==
    [][ (pc = "button" /\ btn_action' = 1) =>
          IF board.generative_mode
          THEN /\ gc' = Randomize(gc, grids).gc
               /\ grids' = Randomize(gc, grids).grids
               /\ gc'.rng_state # gc.rng_state
               /\ board' = board
          ELSE /\ gc' = gc
               /\ grids' = grids
               /\ event' = event
               /\ board' = board ]_vars

\* A ShortPress has just been handled in MIDI mode while an output switched
\* on by a note was still on.
C18_Witness ==
    /\ pc = "mode"
    /\ btn_action = 1
    /\ ~board.generative_mode
    /\ OutputsOn(board) > 0

\* C19: handling a LongPress flips the mode, leaves all 8 outputs off and
\* all 8 off-deadlines nil; when the new mode is generative the controller
\* is at step 0, pulse 0, accumulator 0, at the tempo it had (120.0 BPM,
\* the only one main configures), with the channels a fresh controller
\* gets from the new seed; when the new mode is MIDI the controller and
\* the pattern generator are untouched.
C19_LongPressTogglesMode ==
    [][ (pc = "button" /\ btn_action' = 2) =>
          /\ board'.generative_mode = ~board.generative_mode
          /\ \A i \in Channels :
                /\ ~board'.gpio[i]
                /\ board'.gpio_off_deadline[i] = 0
          /\ IF board'.generative_mode
             THEN /\ gc'.current_step = 0
                  /\ gc'.pulse_in_step = 0
                  /\ gc'.step_evaluated = FALSE
                  /\ gc'.us_accumulator = 0
                  /\ gc'.bpm_tenths = gc.bpm_tenths
                  /\ gc'.bpm_tenths = 1200
                  /\ gc'.us_per_pulse = 20833
                  /\ \E seed \in MainSeeds :
                        gc'.channels =
                            ControllerInit(Constructed, GridsStatic, seed,
                                           1200).gc.channels
             ELSE /\ gc' = gc
                  /\ grids' = grids ]_vars

\* A LongPress in MIDI mode has just been handled while an output was on:
\* the mode is generative again, with channels unlike those of start-up.
C19_Witness ==
    /\ pc = "mode"
    /\ btn_action = 2
    /\ board.generative_mode
    /\ cleared > 0
    /\ OutputsOn(board) = 0
    /\ gc.us_accumulator = 0
    /\ \E seed \in BootSeeds :
          gc.channels # Booted(seed).gc.channels

\* C20: in MIDI mode a Note-On (status 0x9n) with velocity v > 0 switches
\* on the output (note mod 8) and no other, and sets its off-deadline to
\* now + 1 + floor(v * 99 / 127) ms, leaving the other deadlines alone:
\* 1 ms for v = 1, 50 ms for v = 64, 100 ms for v = 127; the formula is
\* non-decreasing, gives 1 for v = 0 and stays in 1..100 for v in 0..127.
C20_NoteOnFires ==
    [][ (pc = "packets" /\ Len(Head(board.rx)) = 4
                        /\ Head(board.rx)[2] \div 16 = 9
                        /\ Head(board.rx)[4] > 0) =>
          LET note == Head(board.rx)[3]
              v == Head(board.rx)[4]
              d == board'.gpio_off_deadline[note % 8] - board.clock
          IN  /\ ~board.generative_mode
              /\ \A i \in Channels :
                    /\ board'.gpio[i] = (i = note % 8 \/ board.gpio[i])
                    /\ (i # note % 8) =>
                          board'.gpio_off_deadline[i] =
                              board.gpio_off_deadline[i]
              /\ d = 1 + ((v * 99) \div 127)
              /\ (v = 1) => d = 1
              /\ (v = 64) => d = 50
              /\ (v = 127) => d = 100
              /\ MidiDuration(0) = 1
              /\ \A w \in 0 .. 127 : MidiDuration(w) \in 1 .. 100
              /\ \A w \in 0 .. 126 : MidiDuration(w) <= MidiDuration(w + 1)
      ]_vars

\* The Note-On <<0x93, 9, 64>> has just been handled: output 1, and only
\* output 1, is on and expires in 50 ms.
C20_Witness ==
    /\ last_packet = <<9, 147, 9, 64>>
    /\ ~board.generative_mode
    /\ board.gpio[1]
    /\ OutputsOn(board) = 1
    /\ board.gpio_off_deadline[1] = board.clock + 50

\* C21: a MIDI message that is not a Note-On with velocity > 0 (a Note-Off,
\* a Note-On with velocity 0, any other status) leaves all eight outputs
\* and all eight off-deadlines as they were when it is handled; a Note-Off
\* never switches off or shortens a pulse in progress.
C21_OnlyNoteOnTouchesOutputs ==
    [][(/\ pc = "packets"
        /\ Len(Head(board.rx)) = 4
        /\ ~(Head(board.rx)[2] \in 144 .. 159 /\ Head(board.rx)[4] > 0))
       => (/\ last_packet' = Head(board.rx)
           /\ board'.gpio = board.gpio
           /\ board'.gpio_off_deadline = board.gpio_off_deadline)]_vars

\* A Note-Off for note 60 has just been handled while output 4 was on from
\* a Note-On of velocity 127 handled in the same pass; the pulse still
\* has its full 100 ms.
C21_Witness ==
    /\ last_packet = <<8, 128, 60, 64>>
    /\ board.gpio[4]
    /\ board.gpio_off_deadline[4] = board.clock + 100

\* C22: while the mode is MIDI no Tick is made: over every step that
\* begins and ends in MIDI mode the controller and the pattern generator
\* (accumulator, current step, pulse in step, velocity cursors) and the
\* last FireEvent stay as they are, and an output is switched on or given
\* a deadline only by a packet being handled.  While the mode is
\* Generative no packet is handled: the mode's step reads packets off the
\* queue and changes exactly the outputs and deadlines the FireEvent
\* names, and every other step in that mode switches nothing on.
C22_ModesAreExclusive ==
    [][/\ (~board.generative_mode /\ ~board'.generative_mode)
          => /\ gc' = gc /\ grids' = grids /\ event' = event
             /\ (last_packet' = << >>)
                   => \A i \in Channels :
                         /\ board'.gpio[i] => board.gpio[i]
                         /\ board'.gpio_off_deadline[i]
                               \in {board.gpio_off_deadline[i], nil_time}
       /\ board.generative_mode
          => /\ last_packet' = << >>
             /\ (pc = "mode")
                   => /\ Len(board'.rx) = Len(board.rx) - reads'
                      /\ \A i \in Channels :
                            IF MaskBit(event'.gpio_mask, i)
                            THEN /\ board'.gpio[i]
                                 /\ board'.gpio_off_deadline[i] =
                                       board.clock + event'.duration_ms[i]
                            ELSE /\ board'.gpio[i] = board.gpio[i]
                                 /\ board'.gpio_off_deadline[i] =
                                       board.gpio_off_deadline[i]
             /\ (pc # "mode")
                   => \A i \in Channels :
                         /\ board'.gpio[i] => board.gpio[i]
                         /\ board'.gpio_off_deadline[i]
                               \in {board.gpio_off_deadline[i], nil_time}]_vars

\* In generative mode a pass has just read packets off the queue, the
\* Tick of that pass fired nothing, and every output is off.
C22_Witness ==
    /\ board.generative_mode
    /\ pc = "deadlines"
    /\ reads > 0
    /\ event.gpio_mask = 0
    /\ OutputsOn(board) = 0

\* C23: at every deadline check of the main loop an output whose deadline
\* is set and not later than the time of the check is switched off and
\* its deadline set to nil, and every other output and deadline is left
\* as it is; so an output switched on for d ms is switched off by the
\* first check made d ms or more after the firing (unless it is fired
\* again first), and none is still on after a check past its expiry.
C23_SwitchedOffAtExpiry ==
    [][(pc = "deadlines")
       => \A i \in Channels :
             IF /\ board.gpio_off_deadline[i] # nil_time
                /\ board.gpio_off_deadline[i] <= board.clock
             THEN /\ ~board'.gpio[i]
                  /\ board'.gpio_off_deadline[i] = nil_time
             ELSE /\ board'.gpio[i] = board.gpio[i]
                  /\ board'.gpio_off_deadline[i] = board.gpio_off_deadline[i]]_vars

\* In MIDI mode the deadline check of the pass just ended switched an
\* output off together with the activity LED, whose deadline is 100 ms
\* after the packet: a pulse of 100 ms from a Note-On of velocity 127 has
\* run its whole length over several passes.
C23_Witness ==
    /\ pc = "button"
    /\ switched_off > 0
    /\ ~board.generative_mode
    /\ arrivals = 1
    /\ ~board.led
    /\ board.led_off_deadline = nil_time
    /\ OutputsOn(board) = 0

\* C24: in every pass of the main loop, in either mode, at most 32 packet
\* reads are made however many packets are waiting, and the first read
\* that fails ends the reading of that pass: in MIDI mode the pass goes on
\* to its deadline checks with nothing handled by that read, in generative
\* mode the reads made are those up to and including the failed one.  So
\* every pass reaches its deadline checks, whatever the backlog.
C24_BoundedDrain ==
    [][/\ reads' <= 32
       /\ (pc = "packets" /\ Len(Head(board.rx)) # 4)
          => /\ pc' = "deadlines"
             /\ last_packet' = << >>
             /\ reads' = reads + 1
             /\ board'.gpio = board.gpio
             /\ board'.gpio_off_deadline = board.gpio_off_deadline
       /\ (pc = "packets" /\ Len(Head(board.rx)) = 4)
          => pc' = (IF reads' = 32 \/ Len(board'.rx) = 0
                    THEN "deadlines" ELSE "packets")
       /\ (pc = "mode")
          => /\ pc' = (IF board.generative_mode \/ board.rx = << >>
                       THEN "deadlines" ELSE "packets")
             /\ board.generative_mode
                   => \A k \in 1 .. Len(board.rx) :
                         (/\ k <= 32
                          /\ Len(board.rx[k]) # 4
                          /\ \A j \in 1 .. (k - 1) : Len(board.rx[j]) = 4)
                         => reads' = k]_vars

\* In MIDI mode a pass has made its 32 reads and is at its deadline checks
\* with one packet of a backlog of 33 still waiting.
C24_Witness ==
    /\ ~board.generative_mode
    /\ pc = "deadlines"
    /\ reads = 32
    /\ Len(board.rx) = 1

\* C25: a Tick never changes a channel's drum_part, x, y, density or
\* velocity_bits, nor the controller's rng_state, bpm_tenths or
\* us_per_pulse; and a Tick that crosses no step boundary (no pulse
\* elapsed, or the pulse was not the third of its step) returns gpio_mask
\* 0 with all eight durations 0 and leaves every channel as it was.
C25_TickFrame ==
    [][(last_op' = "Tick")
       => /\ \A i \in Channels :
                /\ gc'.channels[i].drum_part = gc.channels[i].drum_part
                /\ gc'.channels[i].x = gc.channels[i].x
                /\ gc'.channels[i].y = gc.channels[i].y
                /\ gc'.channels[i].density = gc.channels[i].density
                /\ gc'.channels[i].velocity_bits = gc.channels[i].velocity_bits
          /\ gc'.rng_state = gc.rng_state
          /\ gc'.bpm_tenths = gc.bpm_tenths
          /\ gc'.us_per_pulse = gc.us_per_pulse
          /\ (~pulsed' \/ gc.pulse_in_step + 1 < 3)
                => /\ event'.gpio_mask = 0
                   /\ \A i \in Channels : event'.duration_ms[i] = 0
                   /\ gc'.channels = gc.channels]_vars

\* A Tick on a randomized controller has just evaluated the channels and
\* fired channel 0, moving its velocity cursor.
C25_Witness ==
    /\ last_op = "Tick"
    /\ inited
    /\ evaluated
    /\ MaskBit(event.gpio_mask, 0)
    /\ gc.channels[0].velocity_step = 1
    /\ gc.channels[0].density >= 100
    /\ gc.channels[0].velocity_bits # <<0, 0>>

\* C26: when main() enters its loop (no pass made yet) the mode is
\* Generative and the debounced button is Idle; afterwards the mode changes
\* only in the button step of a pass in which process_button returns
\* LongPress (never on a ShortPress, a MIDI packet, a Tick or a deadline
\* check); and every step leaves the loop at one of its positions, from
\* which the pass goes on (a packet to read is there when one is due).
C26_ModeChangesOnLongPressOnly ==
    [][/\ (board.clock = BootMs /\ pc = "button")
          => /\ board.generative_mode
             /\ ~btn.btn_stable
             /\ ~btn.btn_handled
       /\ (board'.generative_mode # board.generative_mode)
          => /\ pc = "button"
             /\ btn_action' = 2
       /\ pc' \in {"button", "mode", "packets", "deadlines"}
       /\ (pc' = "packets")
          => /\ midi_packets' >= 1
             /\ Len(board'.rx) >= midi_packets']_vars

\* From start-up the key was pressed in the first pass, debounced 50 ms
\* later and held for 1000 ms more: the LongPress of the third pass has
\* just changed the mode to MIDI.
C26_Witness ==
    /\ pc = "mode"
    /\ btn_action = 2
    /\ ~board.generative_mode
    /\ board.clock = BootMs + DEBOUNCE_MS + LONG_PRESS_MS
    /\ passes = 2

\* C27: at every step boundary of the main loop (after each complete
\* switch-on, switch-off or all_solenoids_off) solenoid output i is high
\* exactly when gpio_off_deadline[i] is not nil.
C27_OnIffDeadlineSet ==
    \A i \in Channels :
        board.gpio[i] <=> (board.gpio_off_deadline[i] # nil_time)

\* A pass has ended with output 4 still on, its deadline ahead, after a
\* deadline check that switched another output off.
C27_Witness ==
    /\ pc = "button"
    /\ switched_off > 0
    /\ board.gpio[4]
    /\ board.gpio_off_deadline[4] > board.clock
    /\ \E i \in Channels : ~board.gpio[i] /\ board.gpio_off_deadline[i] = nil_time

\* C28: a firing, generative or MIDI, sets the channel's off-deadline to
\* the time of the firing plus the new duration whatever the channel's
\* state, so on a channel that is on it replaces the pending deadline,
\* also by an earlier one; the output then stays on through every step up
\* to the deadline check at or after that newest deadline, which switches
\* it off (a long press apart, which switches everything off).
C28_RefireOverwritesDeadline ==
    [][/\ (pc = "mode" /\ board.generative_mode)
          => \A i \in Channels :
                MaskBit(event'.gpio_mask, i)
                => /\ board'.gpio[i]
                   /\ board'.gpio_off_deadline[i] =
                         board.clock + event'.duration_ms[i]
       /\ (/\ pc = "packets"
           /\ Len(Head(board.rx)) = 4
           /\ Head(board.rx)[2] \in 144 .. 159
           /\ Head(board.rx)[4] > 0)
          => /\ board'.gpio[Head(board.rx)[3] % 8]
             /\ board'.gpio_off_deadline[Head(board.rx)[3] % 8] =
                   board.clock + 1 + ((Head(board.rx)[4] * 99) \div 127)
       /\ \A i \in Channels :
             (board.gpio[i] /\ ~board'.gpio[i])
             => \/ pc = "deadlines" /\ board.gpio_off_deadline[i] <= board.clock
                \/ pc = "button" /\ btn_action' = 2]_vars

\* In generative mode the evaluation of the second step has just fired
\* channels that were still on from the first step's 100 ms pulses, and
\* given at least one of them a 1 ms pulse: its deadline is now earlier
\* than the one it replaced.
C28_Witness ==
    /\ board.generative_mode
    /\ pc = "deadlines"
    /\ shortened > 0
    /\ \E i \in Channels :
          /\ MaskBit(event.gpio_mask, i)
          /\ event.duration_ms[i] = 1
          /\ board.gpio[i]
          /\ board.gpio_off_deadline[i] = board.clock + 1

\* C29: after Init or Randomize no Tick evaluates the channels or returns
\* a firing before the third pulse has elapsed, the first pulse moving
\* pulse_in_step from 0 to 1 and nothing else of the position; from then
\* on (the pattern generator's step counter advancing by one every three
\* pulses and wrapping at 32) the channels are evaluated at every third
\* pulse and at no other Tick, each evaluation uses the step following
\* the previous one modulo 32 (the first one step 1), and current_step
\* changes at those evaluations only.
C29_EvaluationEveryThirdPulse ==
    [][(last_op' = "Tick" /\ inited)
       => /\ evaluated' <=> (pulsed' /\ r_pulses' % 3 = 0)
          /\ (r_pulses' < 3)
                => /\ event'.gpio_mask = 0
                   /\ r_evals' = 0
                   /\ gc'.current_step = 0
          /\ (pulsed' /\ r_pulses = 0)
                => /\ gc.pulse_in_step = 0
                   /\ gc'.pulse_in_step = 1
          /\ IF evaluated'
             THEN /\ gc'.current_step = (gc.current_step + 1) % 32
                  /\ gc'.current_step = r_evals' % 32
             ELSE gc'.current_step = gc.current_step]_vars

\* The 96th pulse since the last Init or Randomize has just elapsed: the
\* 32nd evaluation used step 0, the counter having wrapped from 31.
C29_Witness ==
    /\ last_op = "Tick"
    /\ inited
    /\ evaluated
    /\ r_pulses = 96
    /\ r_evals = 32
    /\ gc.current_step = 0

\* C30: for every packet the transport can deliver (any byte values) and
\* every generative firing, the solenoid fired is one of 0..7 and the
\* pulse scheduled for it lasts between 1 and 100 ms: a Note-On handled
\* switches on exactly one output i in 0..7 with a deadline d ms ahead, d
\* in 1..100, touching no other output, and a FireEvent names channels
\* 0..7 only, each with a duration in 1..100.
C30_IndexAndDurationInRange ==
    [][/\ (/\ pc = "packets"
           /\ Len(Head(board.rx)) = 4
           /\ Head(board.rx)[2] \in 144 .. 159
           /\ Head(board.rx)[4] > 0)
          => \E i \in 0 .. 7, d \in 1 .. 100 :
                /\ board'.gpio[i]
                /\ board'.gpio_off_deadline[i] = board.clock + d
                /\ \A j \in Channels \ {i} :
                      /\ board'.gpio[j] = board.gpio[j]
                      /\ board'.gpio_off_deadline[j] = board.gpio_off_deadline[j]
       /\ (pc = "mode" /\ board.generative_mode)
          => /\ event'.gpio_mask \in 0 .. 255
             /\ \A i \in Channels :
                   MaskBit(event'.gpio_mask, i)
                   => /\ event'.duration_ms[i] \in 1 .. 100
                      /\ board'.gpio_off_deadline[i] - board.clock \in 1 .. 100]_vars

\* C31: the elapsed times of process_button are unsigned 32-bit
\* differences, so a run in which the millisecond clock wraps around 2^32
\* during a bounce or during a press returns, call by call, the actions
\* of a run given the same readings at the same intervals with the clock
\* far from the wrap, and has the same reading, debounced state and
\* handled flag.
C31_WrapMakesNoDifference ==
    /\ btn_action = ref_action
    /\ btn.btn_last_raw = ref_btn.btn_last_raw
    /\ btn.btn_stable = ref_btn.btn_stable
    /\ btn.btn_handled = ref_btn.btn_handled

\* A press debounced before the clock wrapped has just been reported as
\* a LongPress by a call made after the wrap.
C31_Witness ==
    /\ btn_action = 2
    /\ btn.btn_press_start_ms[1] = kWord - 1
    /\ now_ms[1] = 0
    /\ ref_now_ms[1] = 0
    /\ ref_btn.btn_press_start_ms[1] = 0

\* The first n states of the generator after state s, one per advance.
RECURSIVE DrawSeq(_, _)
DrawSeq(s, n) ==
    IF n = 0 THEN << >>
    ELSE LET p == DrawSeq(s, n - 1)
         IN  Append(p, LcgNext(IF n = 1 THEN s ELSE p[n - 1]))

\* The channels as draws k+1 .. k+40 of the sequence d give them: for
\* channel i in order drum_part, x, y, density, velocity_bits.
ChannelsFromDraws(chans, d, k) ==
    \A i \in Channels :
        /\ chans[i].drum_part = U32Mod(d[k + (5 * i) + 1], 3)
        /\ chans[i].x = d[k + (5 * i) + 2][2] % 256
        /\ chans[i].y = d[k + (5 * i) + 3][2] % 256
        /\ chans[i].density = 100 + U32Mod(d[k + (5 * i) + 4], 100)
        /\ chans[i].velocity_bits = d[k + (5 * i) + 5]

\* C32: the generator is advanced exactly once per draw.  A Randomize
\* leaves it 41 advances on: five draws for each channel 0..7 in order
\* (drum_part, x, y, density, velocity_bits) and a 41st that reseeds the
\* oracle's generator.  An Init leaves it 42 advances on from the seed
\* given: the first draw reseeds the oracle's generator, then Randomize.
\* Tick and SetBpm leave it where it is.
C32_OneAdvancePerDraw ==
    [][/\ (last_op' = "Randomize")
          => \E d \in {DrawSeq(gc.rng_state, 41)} :
                /\ gc'.rng_state = d[41]
                /\ grids'.rng_state = d[41]
                /\ ChannelsFromDraws(gc'.channels, d, 0)
       /\ (last_op' = "Init")
          => \E seed \in Seeds :
                \E d \in {DrawSeq(seed, 42)} :
                   /\ gc'.rng_state = d[42]
                   /\ grids'.rng_state = d[42]
                   /\ ChannelsFromDraws(gc'.channels, d, 1)
       /\ (last_op' \in {"Tick", "SetBpm"})
          => gc'.rng_state = gc.rng_state]_vars

\* An Init with seed 1 followed, some Ticks later, by a Randomize: the
\* generator is 83 advances on from the seed, and Ticks have been made
\* since.
C32_Witness ==
    /\ last_op = "Tick"
    /\ inited
    /\ ~no_rand
    /\ evaluated
    /\ n_ticks > r_pulses
    /\ \E a \in {DrawSeq(<<0, 1>>, 42)[42]} :
          gc.rng_state = DrawSeq(a, 41)[41]

====
